---- MODULE Spec2Model ----
(***************************************************************************)
(* The G-HUB update driver of ghub_updater.py: GhubUpdater and main(),     *)
(* as a sequential program over two external collaborators, the process    *)
(* controller (self.app / process) and the backend channel (self.backend). *)
(* Every collaborator call may raise; every backend response and every     *)
(* read of the liveness flag is chosen by the environment.                 *)
(***************************************************************************)
EXTENDS Integers, Sequences, FiniteSets, TLC

\* ------------------------------------------------------------------ bounds

\* Largest retry budget handed to launch_ghub when it is called on its own.
MaxRetry == 3
\* Clock ticks that make up one max_time window (600 s) of a wait loop.
WaitTicks == 2

\* -------------------------------------------------------- program constants

\* launch_ghub(self, retry=5)
LaunchRetries == 5

\* ------------------------------------------------------------- value sets

\* Python's False, as returned by check_for_update.
PyFalse == "False"

\* The states /updates/status may report; OTHER_STATE stands for the open rest.
UpdateStates ==
  {"CHECKING_FOR_UPDATES", "UPDATE_DOWNLOADING", "UPDATE_UNPACKING",
   "UPDATE_READY", "UPDATER_ERROR", "NO_UPDATES", "OTHER_STATE"}

\* Version strings a response may carry; the empty string is falsy in Python.
Versions == {"", "1.0", "2.0"}

\* Channel names are sequences of characters, so that strip() has work to do.
ChannelNames == {<<"B">>, <<" ", "B", " ">>, <<"b">>}
ReflectedNames == {<<"B">>, <<"b">>, <<" ", "B", " ">>}
Passwords == {"", "pw"}
Tokens == {"", "tok"}

\* Values self.backend.process.is_not_running may read.
FlagValues == {"None", "True", "False"}

\* A Python call that may raise: the outcomes of one call.
CallOutcomes == {"ok", "raises"}

VARIABLES
  pc,            \* the statement about to run
  stack,         \* frames of the callers: [ret, handler]
  exc,           \* the exception in flight or left by the program, "none" if none
  retval,        \* value returned by the last call that returned
  retdict,       \* the dict it returned, when it returned one
  args,          \* channel_name, password, access_tokens handed to start()
  retry,         \* launch_ghub: retry
  number,        \* launch_ghub: number
  new_version,   \* start: new_version
  title,         \* print_build_info: title
  build_info,    \* get_build_info: build_info
  channel_name,  \* set_channel: channel_name after strip()
  expected_state,\* wait_for_update_state: expected_state
  max_time,      \* wait loops: max_time
  end_time,      \* wait loops: end_time
  entry,         \* the entry point under execution: main() or one method
  now,           \* the clock read by time.time(), relative to the loop's start_time
  starts,        \* history: number of start() invocations so far
  outcomes,      \* history: how each finished start() invocation ended
  lastProcOp,    \* history: last process-controller operation performed
  obs            \* history: what the current start() invocation has done so far

vars == <<entry, pc, stack, exc, retval, retdict, args, retry, number, new_version,
          title, build_info, channel_name, expected_state, max_time, end_time, now,
          starts, outcomes, lastProcOp, obs>>

\* Locals of the methods, as a group.
locals == <<retry, number, new_version, title, build_info, channel_name,
            expected_state, max_time, end_time, now>>

\* ------------------------------------------------------------ pure helpers

IsSpace(c) == c = " "

\* str.strip(): drop leading and trailing whitespace.
RECURSIVE LStrip(_)
LStrip(s) == IF s # <<>> /\ IsSpace(Head(s)) THEN LStrip(Tail(s)) ELSE s

RECURSIVE RStrip(_)
RStrip(s) ==
  IF s # <<>> /\ IsSpace(s[Len(s)]) THEN RStrip(SubSeq(s, 1, Len(s) - 1)) ELSE s

Strip(s) == RStrip(LStrip(s))

\* Truthy as a test against None instead: False counts as a version.
Truthy_is_not_none(v) == v # "None"

\* Python truthiness of what check_for_update returns (False or a string).
Truthy(v) == v # PyFalse /\ v # ""

\* What one start() invocation has done, at its entry.
NewObs ==
  [launchTries  |-> 0,       \* attempts begun by the last launch_ghub call
   launchFails  |-> 0,       \* attempts of the last launch_ghub call that raised
   launchResult |-> "none",  \* how the last launch_ghub call ended
   cleanup      |-> FALSE,   \* line 238 was executed
   resetState   |-> "none",  \* state read by reset_existing_update_process
   resetSets    |-> <<>>,    \* paths it sent SET to, in order
   resetKill    |-> FALSE,   \* it killed lghub_updater
   resetLaunch  |-> FALSE,   \* it relaunched the product
   failedStep   |-> 0,       \* step of start() the failure left from, 0 if none
   step         |-> 0,       \* step of start() in progress
   chanSet      |-> FALSE,   \* SET /updates/channel was sent
   chanPayload  |-> <<>>,    \* its payload
   chanGet      |-> FALSE,   \* GET /updates/channel was sent by set_channel
   chanRead     |-> FALSE,   \* set_channel read a name back
   chanOk       |-> FALSE,   \* set_channel returned
   requested    |-> <<>>,    \* name set_channel compared against
   reflected    |-> <<>>,    \* name read back by set_channel
   checkNow     |-> 0,       \* SET /updates/check_now sent
   chkState     |-> "none",  \* state classified by the last check_for_update
   nextGets     |-> 0,       \* GET /updates/next/info sent by the last check_for_update
   nextVersion  |-> "none",  \* version field of the last /updates/next/info response
   killed       |-> FALSE,   \* the last check_for_update killed lghub_updater
   chkResult    |-> "none",  \* how the last check_for_update ended
   chkReturned  |-> "none",  \* what the last check_for_update returned
   step5        |-> "none",  \* what check_for_update returned to step 5
   noUpdate     |-> FALSE,   \* "No new update available" was printed
   step5NoUpdates |-> FALSE, \* step 5 classified the state NO_UPDATES
   dlSets       |-> 0,       \* SET /updates/download sent
   ready        |-> FALSE,   \* UPDATE_READY polled after the download SET
   dlDone       |-> FALSE,   \* download_new_update returned
   instSets     |-> 0,       \* SET /updates/install sent
   instSetRaised|-> FALSE,   \* the SET /updates/install raised
   connWaits    |-> 0,       \* connection waits entered
   dropped      |-> FALSE,   \* wait_until_backend_disconnected returned
   dropFlag     |-> "none",  \* the flag value it returned on
   reconnected  |-> FALSE,   \* wait_until_backend_connected returned
   connFlag     |-> "none",  \* the flag value it returned on
   postChecks   |-> 0,       \* check_for_update runs started by install_new_update
   postReturned |-> "none",  \* what that check_for_update returned
   postResult   |-> "none",  \* what install_new_update made of its check
   instDone     |-> FALSE,   \* install_new_update returned
   postVersion  |-> "none",  \* version read by get_build_info at line 233
   lastReq      |-> "none",  \* last request handed to send_message
   caught       |-> {},      \* methods whose except clause caught a failure and went on
   flag         |-> "none",  \* is_not_running as the running wait loop last read it
   polled       |-> "none",  \* state the last poll of wait_for_update_state read
   pollFailed   |-> FALSE,   \* the last poll of wait_for_update_state raised
   waitResult   |-> "none",  \* how the last wait loop ended
   timedOutAt   |-> -1,      \* clock reading on which the last wait loop gave up
   reportCalled |-> FALSE,   \* line 235 was reached
   reportedNew  |-> FALSE]   \* NEW BUILD INFO was printed

\* The except clause of method caught an exception and execution goes on.
Caught(o, method) == [o EXCEPT !.caught = @ \cup {method}]

\* send_message(verb, path) was called.
Sent(o, request) == [o EXCEPT !.lastReq = request]

\* ------------------------------------------------------- calls and raises

\* build_info = dict() (line 47), with the keys lines 50-55 fill.
NoBuildInfo == [channel |-> <<>>, version |-> "none", buildId |-> "none", branch |-> "none"]

Frame(ret, handler) == [ret |-> ret, handler |-> handler]

\* Propagate exception e through the callers' frames to the nearest handler.
RECURSIVE Unwind(_, _)
Unwind(e, stk) ==
  IF stk = <<>> THEN [pc |-> "done", stack |-> <<>>, exc |-> e]
  ELSE IF Head(stk).handler # "none"
       THEN [pc |-> Head(stk).handler, stack |-> Tail(stk), exc |-> e]
       ELSE Unwind(e, Tail(stk))

\* The handlers that receive an exception leaving start().
StartHandlers == {"main_except", "main_finally"}

\* Every statement ends in one of Goto, Call, ReturnWith, ReturnDict or RaiseWith,
\* which set pc, stack, exc, retval, retdict, outcomes and obs; o is obs as the
\* statement leaves it.

\* Fall through to the statement at label.
Goto(label, o) ==
  /\ pc' = label
  /\ obs' = o
  /\ retval' = "none"
  /\ retdict' = NoBuildInfo
  /\ UNCHANGED <<stack, exc, outcomes>>

\* Call the method entered at entry; continue at ret when it returns, at
\* handler (if any) when it raises.
Call(entry_pc, ret, handler, o) ==
  /\ pc' = entry_pc
  /\ stack' = <<Frame(ret, handler)>> \o stack
  /\ obs' = o
  /\ retval' = "none"
  /\ retdict' = NoBuildInfo
  /\ UNCHANGED <<exc, outcomes>>

\* raise e. When the exception leaves start(), that invocation has ended.
RaiseWith(e, o) ==
  LET u == Unwind(e, stack) IN
  /\ pc' = u.pc
  /\ stack' = u.stack
  /\ exc' = u.exc
  /\ retval' = "none"
  /\ retdict' = NoBuildInfo
  /\ IF u.pc \in StartHandlers
     THEN /\ outcomes' = Append(outcomes, "raised")
          /\ obs' = [o EXCEPT !.failedStep = o.step]
     ELSE /\ outcomes' = outcomes
          /\ obs' = o

\* return: v, and with it d when the value returned is a dict. The frame main()
\* pushed is start()'s: returning to it ends start().
Return(v, d, o) ==
  /\ IF stack = <<>>
     THEN pc' = "done" /\ stack' = stack /\ outcomes' = outcomes
     ELSE /\ pc' = Head(stack).ret
          /\ stack' = Tail(stack)
          /\ outcomes' = IF Head(stack).handler \in StartHandlers
                         THEN Append(outcomes, "returned")
                         ELSE outcomes
  /\ exc' = exc
  /\ obs' = o
  /\ retval' = v
  /\ retdict' = d

\* return v, for a v that is None, a bool or a str.
ReturnWith(v, o) == Return(v, NoBuildInfo, o)

\* return d, for a dict d.
ReturnDict(d, o) == Return("dict", d, o)

\* ------------------------------------------------------------ launch_ghub

\* Entering launch_ghub: the history of the call starts afresh.
EnterLaunch(o) ==
  [o EXCEPT !.launchTries = 0, !.launchFails = 0, !.launchResult = "running"]

\* The caller moves on: the history of the launch_ghub call is dropped.
ForgetLaunch(o) ==
  [o EXCEPT !.launchTries = 0, !.launchFails = 0, !.launchResult = "none",
            !.caught = @ \ {"launch_ghub"}]

\* launch_ghub_for with the loop bound off by one: range(retry + 1).
launch_ghub_for_one_more ==
  /\ pc = "launch_ghub"
  /\ IF number < retry + 1
     THEN /\ Goto("launch_terminate_all", [obs EXCEPT !.launchTries = @ + 1])
          /\ UNCHANGED number
     ELSE /\ RaiseWith("LaunchFailure", [obs EXCEPT !.launchResult = "LaunchFailure"])
          /\ number' = 0
  /\ UNCHANGED <<entry, max_time, args, retry, new_version, title, build_info, channel_name,
                 expected_state, end_time, now, starts, lastProcOp>>

\* for number in range(retry): ... else: raise RuntimeError (lines 28, 38-41)
launch_ghub_for ==
  /\ pc = "launch_ghub"
  /\ IF number < retry
     THEN /\ Goto("launch_terminate_all", [obs EXCEPT !.launchTries = @ + 1])
          /\ UNCHANGED number
     ELSE /\ RaiseWith("LaunchFailure", [obs EXCEPT !.launchResult = "LaunchFailure"])
          /\ number' = 0
  /\ UNCHANGED <<entry, max_time, args, retry, new_version, title, build_info, channel_name,
                 expected_state, end_time, now, starts, lastProcOp>>

\* self.app.terminate_all(True); time.sleep(10) (lines 30-31); except: lines 35-37
launch_ghub_terminate_all ==
  /\ pc = "launch_terminate_all"
  /\ lastProcOp' = "terminate_all"
  /\ \E out \in CallOutcomes :
       IF out = "ok"
       THEN /\ Goto("launch_launch_all", obs)
            /\ UNCHANGED number
       ELSE /\ Goto("launch_ghub",
                    Caught([obs EXCEPT !.launchFails = @ + 1], "launch_ghub"))
            /\ number' = number + 1
  /\ UNCHANGED <<entry, max_time, args, retry, new_version, title, build_info, channel_name,
                 expected_state, end_time, now, starts>>

\* self.app.launch_all(True); break (lines 32-34); except: lines 35-37
launch_ghub_launch_all ==
  /\ pc = "launch_launch_all"
  /\ lastProcOp' = "launch_all"
  /\ \E out \in CallOutcomes :
       IF out = "ok"
       THEN /\ ReturnWith("none", [obs EXCEPT !.launchResult = "returned"])
            /\ number' = 0
       ELSE /\ Goto("launch_ghub",
                    Caught([obs EXCEPT !.launchFails = @ + 1], "launch_ghub"))
            /\ number' = number + 1
  /\ UNCHANGED <<entry, max_time, args, retry, new_version, title, build_info, channel_name,
                 expected_state, end_time, now, starts>>

\* ---------------------------------------------------------- get_build_info

\* Failures of one request/response exchange: send_message raises, or
\* get_message_response_from_bulk, json.loads or the field access raises.
ExchangeFailures == {"send_raises", "response_raises"}

\* GET /updates/channel; build_info['channel'] = payload name (lines 47-50)
get_build_info_channel ==
  /\ pc = "get_build_info"
  /\ \/ /\ \E f \in ExchangeFailures :
             RaiseWith("TransportError", Sent(obs, "GET /updates/channel"))
        /\ UNCHANGED build_info
     \/ \E name \in ReflectedNames :
          /\ build_info' = [NoBuildInfo EXCEPT !.channel = name]
          /\ Goto("get_build_info_info", Sent(obs, "GET /updates/channel"))
  /\ UNCHANGED <<entry, max_time, args, retry, number, new_version, title, channel_name,
                 expected_state, end_time, now, starts, lastProcOp>>

\* GET /updates/info; version, buildId, branch; return build_info (lines 51-56)
get_build_info_info ==
  /\ pc = "get_build_info_info"
  /\ build_info' = NoBuildInfo
  /\ \/ \E f \in ExchangeFailures :
          RaiseWith("TransportError", Sent(obs, "GET /updates/info"))
     \/ \E v \in Versions :
          ReturnDict([build_info EXCEPT !.version = v, !.buildId = "id", !.branch = "br"],
                     Sent(obs, "GET /updates/info"))
  /\ UNCHANGED <<entry, max_time, args, retry, number, new_version, title, channel_name,
                 expected_state, end_time, now, starts, lastProcOp>>

\* -------------------------------------------------------- print_build_info

\* build_info = self.get_build_info() (line 214)
print_build_info_get ==
  /\ pc = "print_build_info"
  /\ Call("get_build_info", "print_build_info_print", "none", obs)
  /\ UNCHANGED <<entry, args, locals, starts, lastProcOp>>

\* print the title and the fields (lines 215-219)
print_build_info_print ==
  /\ pc = "print_build_info_print"
  /\ ReturnWith("none", [obs EXCEPT !.reportedNew = @ \/ title = "NEW BUILD INFO"])
  /\ title' = "none"
  /\ UNCHANGED <<entry, max_time, args, retry, number, new_version, build_info, channel_name,
                 expected_state, end_time, now, starts, lastProcOp>>

\* ------------------------------------------- reset_existing_update_process

\* update_states with UPDATER_ERROR counted as an update in flight.
update_states_with_error ==
  {"CHECKING_FOR_UPDATES", "UPDATE_DOWNLOADING", "UPDATE_UNPACKING", "UPDATE_READY",
   "UPDATER_ERROR"}

\* update_states of line 62.
update_states ==
  {"CHECKING_FOR_UPDATES", "UPDATE_DOWNLOADING", "UPDATE_UNPACKING", "UPDATE_READY"}

\* The caller moves on: the history of the reset call is dropped.
ForgetReset(o) ==
  [o EXCEPT !.resetState = "none", !.resetSets = <<>>, !.resetKill = FALSE,
            !.resetLaunch = FALSE]

\* GET /updates/status; if state in update_states (lines 62-66)
reset_existing_update_process_status ==
  /\ pc = "reset_existing_update_process"
  /\ \/ \E f \in ExchangeFailures :
          RaiseWith("TransportError", Sent(obs, "GET /updates/status"))
     \/ \E state \in UpdateStates :
          LET o == Sent([obs EXCEPT !.resetState = state], "GET /updates/status") IN
          IF state \in update_states
          THEN Goto("reset_set_reset", o)
          ELSE ReturnWith("none", o)
  /\ UNCHANGED <<entry, args, locals, starts, lastProcOp>>

\* SET /updates/reset (line 67)
reset_existing_update_process_reset ==
  /\ pc = "reset_set_reset"
  /\ \E out \in CallOutcomes :
       LET o == Sent([obs EXCEPT !.resetSets = Append(@, "/updates/reset")],
                     "SET /updates/reset") IN
       IF out = "ok" THEN Goto("reset_set_purge", o) ELSE RaiseWith("TransportError", o)
  /\ UNCHANGED <<entry, args, locals, starts, lastProcOp>>

\* SET /updates/purge (line 68)
reset_existing_update_process_purge ==
  /\ pc = "reset_set_purge"
  /\ \E out \in CallOutcomes :
       LET o == Sent([obs EXCEPT !.resetSets = Append(@, "/updates/purge")],
                     "SET /updates/purge") IN
       IF out = "ok" THEN Goto("reset_kill", o) ELSE RaiseWith("TransportError", o)
  /\ UNCHANGED <<entry, args, locals, starts, lastProcOp>>

\* process.kill("lghub_updater"); time.sleep(10) (lines 69-70)
reset_existing_update_process_kill ==
  /\ pc = "reset_kill"
  /\ lastProcOp' = "kill"
  /\ \E out \in CallOutcomes :
       LET o == [obs EXCEPT !.resetKill = TRUE] IN
       IF out = "ok" THEN Goto("reset_launch_ghub", o) ELSE RaiseWith("ProcessError", o)
  /\ UNCHANGED <<entry, args, locals, starts>>

\* self.launch_ghub() (line 71)
reset_existing_update_process_launch_ghub ==
  /\ pc = "reset_launch_ghub"
  /\ retry' = LaunchRetries
  /\ number' = 0
  /\ Call("launch_ghub", "reset_end", "none",
          EnterLaunch([obs EXCEPT !.resetLaunch = TRUE]))
  /\ UNCHANGED <<entry, max_time, args, new_version, title, build_info, channel_name,
                 expected_state, end_time, now, starts, lastProcOp>>

\* the method ends after line 71
reset_existing_update_process_end ==
  /\ pc = "reset_end"
  /\ ReturnWith("none", ForgetLaunch(obs))
  /\ UNCHANGED <<entry, args, locals, starts, lastProcOp>>

\* ------------------------------------------------------------- set_channel

\* json.dumps({"name": channel_name, "password": password}) (line 81)
ChannelPayload(name, password, access_tokens) ==
  [name |-> name, password |-> password]

\* set_channel_set with a try around the SET whose except clause goes on to the
\* GET.
set_channel_set_swallows ==
  /\ pc = "set_channel"
  /\ channel_name' = Strip(args.channel_name)
  /\ \E out \in CallOutcomes :
       LET o == Sent([obs EXCEPT !.chanSet = TRUE,
                                 !.chanPayload = ChannelPayload(channel_name',
                                                   args.password, args.access_tokens)],
                     "SET /updates/channel") IN
       Goto("set_channel_get", IF out = "ok" THEN o ELSE Caught(o, "set_channel"))
  /\ UNCHANGED <<entry, max_time, args, retry, number, new_version, title, build_info,
                 expected_state, end_time, now, starts, lastProcOp>>

\* channel_name.strip(); SET /updates/channel with the payload (lines 79-82)
set_channel_set ==
  /\ pc = "set_channel"
  /\ channel_name' = Strip(args.channel_name)
  /\ \E out \in CallOutcomes :
       LET o == Sent([obs EXCEPT !.chanSet = TRUE,
                                 !.chanPayload = ChannelPayload(channel_name',
                                                   args.password, args.access_tokens)],
                     "SET /updates/channel") IN
       IF out = "ok" THEN Goto("set_channel_get", o) ELSE RaiseWith("TransportError", o)
  /\ UNCHANGED <<entry, max_time, args, retry, number, new_version, title, build_info,
                 expected_state, end_time, now, starts, lastProcOp>>

Lower(c) == IF c = "B" THEN "b" ELSE c

\* ChannelMatches that ignores case.
ChannelMatches_ignores_case(reflected, requested) ==
  /\ Len(reflected) = Len(requested)
  /\ \A i \in 1..Len(reflected) : Lower(reflected[i]) = Lower(requested[i])

\* The comparison of line 85.
ChannelMatches(reflected, requested) == reflected = requested

\* GET /updates/channel; compare the name read back (lines 83-90)
set_channel_get ==
  /\ pc = "set_channel_get"
  /\ channel_name' = <<>>
  /\ \/ \E f \in ExchangeFailures :
          RaiseWith("TransportError",
                    Sent([obs EXCEPT !.chanGet = TRUE], "GET /updates/channel"))
     \/ \E name \in ReflectedNames :
          LET o == Sent([obs EXCEPT !.chanGet = TRUE, !.chanRead = TRUE,
                                    !.reflected = name, !.requested = channel_name],
                        "GET /updates/channel") IN
          IF ChannelMatches(name, channel_name)
          THEN ReturnWith("none", [o EXCEPT !.chanOk = TRUE])
          ELSE RaiseWith("ChannelMismatch", o)
  /\ UNCHANGED <<entry, max_time, args, retry, number, new_version, title, build_info,
                 expected_state, end_time, now, starts, lastProcOp>>

\* -------------------------------------------------------- check_for_update

\* Entering check_for_update: the history of the call starts afresh.
EnterCheck(o) ==
  [o EXCEPT !.chkState = "none", !.nextGets = 0, !.nextVersion = "none",
            !.killed = FALSE, !.chkResult = "running", !.chkReturned = "none"]

\* The caller moves on: the history of the check_for_update call is dropped.
ForgetCheck(o) ==
  [o EXCEPT !.chkState = "none", !.nextGets = 0, !.nextVersion = "none",
            !.killed = FALSE, !.chkResult = "none", !.chkReturned = "none"]

\* SET /updates/reset (line 97)
check_for_update_reset ==
  /\ pc = "check_for_update"
  /\ \E out \in CallOutcomes :
       LET o == Sent(obs, "SET /updates/reset") IN
       IF out = "ok" THEN Goto("check_check_now", o)
       ELSE RaiseWith("TransportError", [o EXCEPT !.chkResult = "TransportError"])
  /\ UNCHANGED <<entry, args, locals, starts, lastProcOp>>

\* SET /updates/check_now; time.sleep(10) (lines 98-100)
check_for_update_check_now ==
  /\ pc = "check_check_now"
  /\ \E out \in CallOutcomes :
       LET o == Sent([obs EXCEPT !.checkNow = @ + 1], "SET /updates/check_now") IN
       IF out = "ok" THEN Goto("check_status", o)
       ELSE RaiseWith("TransportError", [o EXCEPT !.chkResult = "TransportError"])
  /\ UNCHANGED <<entry, args, locals, starts, lastProcOp>>

\* Classify with the final else taken only for the known update states.
Classify_unknown_is_no_update(state) ==
  IF state = "UPDATER_ERROR" THEN "error"
  ELSE IF state = "CHECKING_FOR_UPDATES" THEN "stuck"
  ELSE IF state \in update_states THEN "update"
  ELSE "no_update"

\* Classify without the CHECKING_FOR_UPDATES branch.
Classify_stuck_is_update(state) ==
  IF state = "UPDATER_ERROR" THEN "error"
  ELSE IF state = "NO_UPDATES" THEN "no_update"
  ELSE "update"

\* The branch of lines 104-116 taken for a state.
Classify(state) ==
  IF state = "UPDATER_ERROR" THEN "error"
  ELSE IF state = "CHECKING_FOR_UPDATES" THEN "stuck"
  ELSE IF state = "NO_UPDATES" THEN "no_update"
  ELSE "update"

\* GET /updates/status (timeout=60) and the branch on its state (lines 101-116)
check_for_update_status ==
  /\ pc = "check_status"
  /\ \/ \E f \in ExchangeFailures :
          RaiseWith("TransportError", Sent([obs EXCEPT !.chkResult = "TransportError"],
                                           "GET /updates/status"))
     \/ \E state \in UpdateStates :
          LET o == Sent([obs EXCEPT !.chkState = state], "GET /updates/status") IN
          CASE Classify(state) = "error" ->
                 RaiseWith("UpdaterError", [o EXCEPT !.chkResult = "UpdaterError"])
            [] Classify(state) = "stuck" -> Goto("check_kill", o)
            [] Classify(state) = "no_update" ->
                 ReturnWith(PyFalse, [o EXCEPT !.chkResult = "returned",
                                               !.chkReturned = PyFalse])
            [] OTHER -> Goto("check_next_info", o)
  /\ UNCHANGED <<entry, args, locals, starts, lastProcOp>>

\* process.kill("lghub_updater"); time.sleep(10); raise RuntimeError (lines 109-113)
check_for_update_kill ==
  /\ pc = "check_kill"
  /\ lastProcOp' = "kill"
  /\ \E out \in CallOutcomes :
       LET o == [obs EXCEPT !.killed = TRUE] IN
       IF out = "ok"
       THEN RaiseWith("UpdateCheckTimeout", [o EXCEPT !.chkResult = "UpdateCheckTimeout"])
       ELSE RaiseWith("ProcessError", [o EXCEPT !.chkResult = "ProcessError"])
  /\ UNCHANGED <<entry, args, locals, starts>>

\* GET /updates/next/info; return its version (lines 117-119)
check_for_update_next_info ==
  /\ pc = "check_next_info"
  /\ \/ \E f \in ExchangeFailures :
          RaiseWith("TransportError",
                    Sent([obs EXCEPT !.nextGets = @ + 1, !.chkResult = "TransportError"],
                         "GET /updates/next/info"))
     \/ \E v \in Versions :
          ReturnWith(v, Sent([obs EXCEPT !.nextGets = @ + 1, !.nextVersion = v,
                                         !.chkResult = "returned", !.chkReturned = v],
                             "GET /updates/next/info"))
  /\ UNCHANGED <<entry, args, locals, starts, lastProcOp>>

\* ---------------------------------------------------- wait_for_update_state

\* time.time() as the loop head reads it: the clock has stood still or moved on.
ClockReads == {now, now + 1}

\* Entering a wait loop: the history of the loop starts afresh.
EnterWait(o) ==
  [o EXCEPT !.flag = "none", !.pollFailed = FALSE, !.waitResult = "running",
            !.timedOutAt = -1]

\* A wait loop ends with result r; its reads of the flag are over.
LeaveWait(o, r) ==
  [o EXCEPT !.flag = "none", !.pollFailed = FALSE, !.waitResult = r,
            !.caught = @ \ {"wait_for_update_state"}]

\* Python truthiness of is_not_running, the test of line 194.
NotRunning(flag) == flag = "True"

\* The comparison of line 200 with UPDATER_ERROR ending the wait as well.
StateMatches_or_error(state, expected) == state \in {expected, "UPDATER_ERROR"}

\* The comparison of line 200.
StateMatches(state, expected) == state = expected

\* start_time = time.time(); end_time = start_time + max_time (lines 191-192)
wait_for_update_state_enter ==
  /\ pc = "wait_for_update_state"
  /\ now' = 0
  /\ end_time' = 0 + max_time
  /\ Goto("wait_state_while", EnterWait(obs))
  /\ UNCHANGED <<entry, max_time, args, retry, number, new_version, title, build_info,
                 channel_name, expected_state, starts, lastProcOp>>

\* The loop head with the deadline counted from the iteration before instead of
\* from loop entry.
wait_for_update_state_while_sliding_deadline ==
  /\ pc = "wait_state_while"
  /\ \E t \in ClockReads :
       IF end_time > t
       THEN /\ now' = 0
            /\ end_time' = end_time
            /\ \E flag \in FlagValues :
                 LET o == [obs EXCEPT !.flag = flag, !.pollFailed = FALSE] IN
                 IF NotRunning(flag)
                 THEN Goto("wait_state_while", o)
                 ELSE Goto("wait_state_poll", o)
       ELSE /\ now' = 0
            /\ end_time' = 0
            /\ RaiseWith("StatePollTimeout",
                         LeaveWait([obs EXCEPT !.timedOutAt = t], "StatePollTimeout"))
  /\ UNCHANGED <<entry, max_time, args, retry, number, new_version, title, build_info,
                 channel_name, expected_state, starts, lastProcOp>>

\* while end_time > time.time(): if is_not_running: continue; else: raise
\* (lines 193-195, 205-208)
wait_for_update_state_while ==
  /\ pc = "wait_state_while"
  /\ \E t \in ClockReads :
       IF end_time > t
       THEN /\ now' = t
            /\ end_time' = end_time
            /\ \E flag \in FlagValues :
                 LET o == [obs EXCEPT !.flag = flag, !.pollFailed = FALSE] IN
                 IF NotRunning(flag)
                 THEN Goto("wait_state_while", o)
                 ELSE Goto("wait_state_poll", o)
       ELSE /\ now' = 0
            /\ end_time' = 0
            /\ RaiseWith("StatePollTimeout",
                         LeaveWait([obs EXCEPT !.timedOutAt = t], "StatePollTimeout"))
  /\ UNCHANGED <<entry, max_time, args, retry, number, new_version, title, build_info,
                 channel_name, expected_state, starts, lastProcOp>>

\* The poll with no try around the exchange: its failure leaves the loop.
wait_for_update_state_poll_failure_escapes ==
  /\ pc = "wait_state_poll"
  /\ \/ /\ \E f \in ExchangeFailures :
             RaiseWith("TransportError",
                       LeaveWait(Sent(obs, "GET /updates/status"), "TransportError"))
        /\ now' = 0
        /\ end_time' = 0
     \/ \E state \in UpdateStates :
          LET o == Sent([obs EXCEPT !.polled = state], "GET /updates/status") IN
          IF StateMatches(state, expected_state)
          THEN /\ ReturnWith("True",
                             LeaveWait([o EXCEPT !.ready = @ \/ state = "UPDATE_READY"],
                                       "returned"))
               /\ now' = 0
               /\ end_time' = 0
          ELSE /\ Goto("wait_state_while", o)
               /\ UNCHANGED <<now, end_time>>
  /\ UNCHANGED <<entry, max_time, args, retry, number, new_version, title, build_info,
                 channel_name, expected_state, starts, lastProcOp>>

\* GET /updates/status; return True on expected_state; except: continue
\* (lines 196-204)
wait_for_update_state_poll ==
  /\ pc = "wait_state_poll"
  /\ \/ /\ \E f \in ExchangeFailures :
             Goto("wait_state_while",
                  Caught(Sent([obs EXCEPT !.pollFailed = TRUE], "GET /updates/status"),
                         "wait_for_update_state"))
        /\ UNCHANGED <<now, end_time>>
     \/ \E state \in UpdateStates :
          LET o == Sent([obs EXCEPT !.polled = state], "GET /updates/status") IN
          IF StateMatches(state, expected_state)
          THEN /\ ReturnWith("True",
                             LeaveWait([o EXCEPT !.ready = @ \/ state = "UPDATE_READY"],
                                       "returned"))
               /\ now' = 0
               /\ end_time' = 0
          ELSE /\ Goto("wait_state_while", o)
               /\ UNCHANGED <<now, end_time>>
  /\ UNCHANGED <<entry, max_time, args, retry, number, new_version, title, build_info,
                 channel_name, expected_state, starts, lastProcOp>>

\* ------------------------------------------- wait_until_backend_disconnected

\* start_time = time.time(); end_time = start_time + max_time (lines 176-177)
wait_until_backend_disconnected_enter ==
  /\ pc = "wait_until_backend_disconnected"
  /\ now' = 0
  /\ end_time' = 0 + max_time
  /\ Goto("wait_disconnected_while", EnterWait([obs EXCEPT !.connWaits = @ + 1]))
  /\ UNCHANGED <<entry, max_time, args, retry, number, new_version, title, build_info,
                 channel_name, expected_state, starts, lastProcOp>>

\* The test of line 180: status is True.
IsDisconnected(status) == status = "True"

\* while end_time > time.time(): if status is True: return True; else: raise
\* (lines 178-185)
wait_until_backend_disconnected_while ==
  /\ pc = "wait_disconnected_while"
  /\ \E t \in ClockReads :
       IF end_time > t
       THEN \E flag \in FlagValues :
              IF IsDisconnected(flag)
              THEN /\ ReturnWith("True",
                                 LeaveWait([obs EXCEPT !.dropped = TRUE,
                                                       !.dropFlag = flag], "returned"))
                   /\ now' = 0
                   /\ end_time' = 0
              ELSE /\ Goto("wait_disconnected_while", [obs EXCEPT !.flag = flag])
                   /\ now' = t
                   /\ end_time' = end_time
       ELSE /\ now' = 0
            /\ end_time' = 0
            /\ RaiseWith("ConnectionTimeout",
                         LeaveWait([obs EXCEPT !.timedOutAt = t], "ConnectionTimeout"))
  /\ UNCHANGED <<entry, max_time, args, retry, number, new_version, title, build_info,
                 channel_name, expected_state, starts, lastProcOp>>

\* ---------------------------------------------- wait_until_backend_connected

\* start_time = time.time(); end_time = start_time + max_time (lines 160-161)
wait_until_backend_connected_enter ==
  /\ pc = "wait_until_backend_connected"
  /\ now' = 0
  /\ end_time' = 0 + max_time
  /\ Goto("wait_connected_while", EnterWait([obs EXCEPT !.connWaits = @ + 1]))
  /\ UNCHANGED <<entry, max_time, args, retry, number, new_version, title, build_info,
                 channel_name, expected_state, starts, lastProcOp>>

\* The test of line 164 as a test for a value that is neither None nor True.
IsConnected_neither_none_nor_true(status) == status \notin {"None", "True"}

\* The test of line 164: status is None.
IsConnected(status) == status = "None"

\* while end_time > time.time(): if status is None: return True; else: raise
\* (lines 162-169)
wait_until_backend_connected_while ==
  /\ pc = "wait_connected_while"
  /\ \E t \in ClockReads :
       IF end_time > t
       THEN \E flag \in FlagValues :
              IF IsConnected(flag)
              THEN /\ ReturnWith("True",
                                 LeaveWait([obs EXCEPT !.reconnected = TRUE,
                                                       !.connFlag = flag], "returned"))
                   /\ now' = 0
                   /\ end_time' = 0
              ELSE /\ Goto("wait_connected_while", [obs EXCEPT !.flag = flag])
                   /\ now' = t
                   /\ end_time' = end_time
       ELSE /\ now' = 0
            /\ end_time' = 0
            /\ RaiseWith("ConnectionTimeout",
                         LeaveWait([obs EXCEPT !.timedOutAt = t], "ConnectionTimeout"))
  /\ UNCHANGED <<entry, max_time, args, retry, number, new_version, title, build_info,
                 channel_name, expected_state, starts, lastProcOp>>

\* ------------------------------------------------------ download_new_update

\* The SET /updates/download moved inside the try of lines 127-134.
download_new_update_set_inside_try ==
  /\ pc = "download_new_update"
  /\ \E out \in CallOutcomes :
       LET o == Sent([obs EXCEPT !.dlSets = @ + 1], "SET /updates/download") IN
       IF out = "ok" THEN Goto("download_wait", o) ELSE RaiseWith("DownloadTimeout", o)
  /\ UNCHANGED <<entry, args, locals, starts, lastProcOp>>

\* SET /updates/download (lines 125-126)
download_new_update_set ==
  /\ pc = "download_new_update"
  /\ \E out \in CallOutcomes :
       LET o == Sent([obs EXCEPT !.dlSets = @ + 1], "SET /updates/download") IN
       IF out = "ok" THEN Goto("download_wait", o) ELSE RaiseWith("TransportError", o)
  /\ UNCHANGED <<entry, args, locals, starts, lastProcOp>>

\* try: self.wait_for_update_state("UPDATE_READY") (lines 127-128)
download_new_update_wait ==
  /\ pc = "download_wait"
  /\ expected_state' = "UPDATE_READY"
  /\ max_time' = WaitTicks
  /\ Call("wait_for_update_state", "download_ready", "download_except", obs)
  /\ UNCHANGED <<entry, args, retry, number, new_version, title, build_info,
                 channel_name, end_time, now, starts, lastProcOp>>

\* print("[INFO]: Update ready to install...") and return (line 129)
download_new_update_ready ==
  /\ pc = "download_ready"
  /\ ReturnWith("none", [obs EXCEPT !.dlDone = TRUE])
  /\ UNCHANGED <<entry, args, locals, starts, lastProcOp>>

\* download_new_update_except that logs the failure and returns.
download_new_update_except_swallows ==
  /\ pc = "download_except"
  /\ exc' = "none"
  /\ retval' = "none"
  /\ retdict' = NoBuildInfo
  /\ pc' = Head(stack).ret
  /\ stack' = Tail(stack)
  /\ UNCHANGED <<entry, args, locals, starts, outcomes, lastProcOp, obs>>

\* except Exception: raise TimeoutError(msg) (lines 130-134)
download_new_update_except ==
  /\ pc = "download_except"
  /\ RaiseWith("DownloadTimeout", obs)
  /\ UNCHANGED <<entry, args, locals, starts, lastProcOp>>

\* ------------------------------------------------------- install_new_update

\* The SET /updates/install with no try around it: its failure is fatal.
install_new_update_set_fatal ==
  /\ pc = "install_new_update"
  /\ \E out \in CallOutcomes :
       LET o == Sent([obs EXCEPT !.instSets = @ + 1, !.instSetRaised = (out = "raises")],
                     "SET /updates/install") IN
       IF out = "ok"
       THEN Goto("install_wait_disconnected", o)
       ELSE RaiseWith("TransportError", o)
  /\ UNCHANGED <<entry, args, locals, starts, lastProcOp>>

\* try: SET /updates/install; except: warn and go on (lines 140-145)
install_new_update_set ==
  /\ pc = "install_new_update"
  /\ \E out \in CallOutcomes :
       LET o == Sent([obs EXCEPT !.instSets = @ + 1, !.instSetRaised = (out = "raises")],
                     "SET /updates/install") IN
       Goto("install_wait_disconnected",
            IF out = "ok" THEN o ELSE Caught(o, "install_new_update"))
  /\ UNCHANGED <<entry, args, locals, starts, lastProcOp>>

\* self.wait_until_backend_disconnected() (line 146)
install_new_update_wait_disconnected ==
  /\ pc = "install_wait_disconnected"
  /\ max_time' = WaitTicks
  /\ Call("wait_until_backend_disconnected", "install_wait_connected", "none", obs)
  /\ UNCHANGED <<entry, args, retry, number, new_version, title, build_info,
                 channel_name, expected_state, end_time, now, starts, lastProcOp>>

\* self.wait_until_backend_connected() (line 147)
install_new_update_wait_connected ==
  /\ pc = "install_wait_connected"
  /\ max_time' = WaitTicks
  /\ Call("wait_until_backend_connected", "install_check", "none", obs)
  /\ UNCHANGED <<entry, args, retry, number, new_version, title, build_info,
                 channel_name, expected_state, end_time, now, starts, lastProcOp>>

\* time.sleep(20); self.check_for_update() (lines 148-149)
install_new_update_check ==
  /\ pc = "install_check"
  /\ Call("check_for_update", "install_if", "none",
          EnterCheck([obs EXCEPT !.postChecks = @ + 1]))
  /\ UNCHANGED <<entry, args, locals, starts, lastProcOp>>

\* install_new_update_if that takes any outcome of the check for success.
install_new_update_if_ignores_check ==
  /\ pc = "install_if"
  /\ ReturnWith("none", ForgetCheck([obs EXCEPT !.postReturned = retval,
                                                !.postResult = "no_update",
                                                !.instDone = TRUE]))
  /\ UNCHANGED <<entry, args, locals, starts, lastProcOp>>

\* if <the check's result>: raise RuntimeError; else return (lines 149-153)
install_new_update_if ==
  /\ pc = "install_if"
  /\ LET o == [obs EXCEPT !.postReturned = retval] IN
     IF Truthy(retval)
     THEN RaiseWith("InstallIncomplete", [o EXCEPT !.postResult = "update"])
     ELSE ReturnWith("none", ForgetCheck([o EXCEPT !.postResult = "no_update",
                                                   !.instDone = TRUE]))
  /\ UNCHANGED <<entry, args, locals, starts, lastProcOp>>

\* -------------------------------------------------------------------- start

\* self.launch_ghub() (line 225)
start_launch_ghub ==
  /\ pc = "start"
  /\ retry' = LaunchRetries
  /\ number' = 0
  /\ Call("launch_ghub", "start_reset", "none", EnterLaunch([obs EXCEPT !.step = 1]))
  /\ UNCHANGED <<entry, max_time, args, new_version, title, build_info, channel_name,
                 expected_state, end_time, now, starts, lastProcOp>>

\* self.reset_existing_update_process() (line 226)
start_reset_existing_update_process ==
  /\ pc = "start_reset"
  /\ Call("reset_existing_update_process", "start_print", "none",
          ForgetLaunch([obs EXCEPT !.step = 2]))
  /\ UNCHANGED <<entry, args, locals, starts, lastProcOp>>

\* self.print_build_info("CURRENT BUILD INFO") (line 227)
start_print_build_info ==
  /\ pc = "start_print"
  /\ title' = "CURRENT BUILD INFO"
  /\ Call("print_build_info", "start_set_channel", "none",
          ForgetReset([obs EXCEPT !.step = 3]))
  /\ UNCHANGED <<entry, max_time, args, retry, number, new_version, build_info, channel_name,
                 expected_state, end_time, now, starts, lastProcOp>>

\* self.set_channel(channel_name, password, access_tokens) (line 228)
start_set_channel ==
  /\ pc = "start_set_channel"
  /\ Call("set_channel", "start_check", "none", [obs EXCEPT !.step = 4])
  /\ UNCHANGED <<entry, args, locals, starts, lastProcOp>>

\* new_version = self.check_for_update(): the call (line 229)
start_check_for_update ==
  /\ pc = "start_check"
  /\ Call("check_for_update", "start_if", "none", EnterCheck([obs EXCEPT !.step = 5]))
  /\ UNCHANGED <<entry, args, locals, starts, lastProcOp>>

\* new_version = <result>; if new_version: self.download_new_update()
\* else: print "No new update available" (lines 229-231, 236-237)
start_if_new_version ==
  /\ pc = "start_if"
  /\ new_version' = retval
  /\ LET o == ForgetCheck([obs EXCEPT !.step5 = retval,
                                       !.step5NoUpdates = (obs.chkState = "NO_UPDATES")]) IN
     IF Truthy(retval)
     THEN Call("download_new_update", "start_install", "none", [o EXCEPT !.step = 6])
     ELSE Goto("start_terminate_all", [o EXCEPT !.noUpdate = TRUE])
  /\ UNCHANGED <<entry, max_time, args, retry, number, title, build_info, channel_name,
                 expected_state, end_time, now, starts, lastProcOp>>

\* self.install_new_update() (line 232)
start_install_new_update ==
  /\ pc = "start_install"
  /\ Call("install_new_update", "start_get_build_info", "none", [obs EXCEPT !.step = 7])
  /\ UNCHANGED <<entry, args, locals, starts, lastProcOp>>

\* self.get_build_info() of the comparison (line 233)
start_get_build_info ==
  /\ pc = "start_get_build_info"
  /\ Call("get_build_info", "start_compare", "none", [obs EXCEPT !.step = 8])
  /\ UNCHANGED <<entry, args, locals, starts, lastProcOp>>

\* VersionConfirmed that accepts any installed version.
VersionConfirmed_any(expected, installed) == installed # "none"

\* The comparison of line 233.
VersionConfirmed(expected, installed) == expected = installed

\* start_compare with an else branch that raises when the versions differ.
start_compare_raises_on_mismatch ==
  /\ pc = "start_compare"
  /\ LET o == [obs EXCEPT !.postVersion = retdict.version] IN
     IF VersionConfirmed(new_version, retdict.version)
     THEN /\ title' = "NEW BUILD INFO"
          /\ Call("print_build_info", "start_terminate_all", "none",
                  [o EXCEPT !.reportCalled = TRUE])
     ELSE /\ title' = title
          /\ RaiseWith("VersionNotConfirmed", o)
  /\ UNCHANGED <<entry, max_time, args, retry, number, new_version, build_info, channel_name,
                 expected_state, end_time, now, starts, lastProcOp>>

\* if new_version == <build info>['version']: print; print_build_info("NEW BUILD INFO")
\* (lines 233-235)
start_compare ==
  /\ pc = "start_compare"
  /\ LET o == [obs EXCEPT !.postVersion = retdict.version] IN
     IF VersionConfirmed(new_version, retdict.version)
     THEN /\ title' = "NEW BUILD INFO"
          /\ Call("print_build_info", "start_terminate_all", "none",
                  [o EXCEPT !.reportCalled = TRUE])
     ELSE /\ title' = title
          /\ Goto("start_terminate_all", o)
  /\ UNCHANGED <<entry, max_time, args, retry, number, new_version, build_info, channel_name,
                 expected_state, end_time, now, starts, lastProcOp>>

\* self.app.terminate_all(True) (line 238)
start_terminate_all ==
  /\ pc = "start_terminate_all"
  /\ lastProcOp' = "terminate_all"
  /\ new_version' = "none"
  /\ \E out \in CallOutcomes :
       LET o == [obs EXCEPT !.step = 9, !.cleanup = TRUE] IN
       IF out = "ok" THEN ReturnWith("none", o) ELSE RaiseWith("ProcessError", o)
  /\ UNCHANGED <<entry, max_time, args, retry, number, title, build_info, channel_name,
                 expected_state, end_time, now, starts>>

\* --------------------------------------------------------------------- main

\* try: updater.start(args.channel, args.password, args.token) (lines 252-253)
main_start ==
  /\ pc = "main"
  /\ starts' = starts + 1
  /\ Call("start", "main_finally", "main_except", NewObs)
  /\ UNCHANGED <<entry, args, locals, lastProcOp>>

\* except Exception: print; updater.start(...) again (lines 254-257)
main_except ==
  /\ pc = "main_except"
  /\ starts' = starts + 1
  /\ pc' = "start"
  /\ stack' = <<Frame("main_finally", "main_finally")>>
  /\ exc' = "none"
  /\ retval' = "none"
  /\ retdict' = NoBuildInfo
  /\ obs' = NewObs
  /\ UNCHANGED <<entry, args, locals, outcomes, lastProcOp>>

\* main_finally without its terminate_all.
main_finally_without_cleanup ==
  /\ pc = "main_finally"
  /\ pc' = "done"
  /\ retval' = "none"
  /\ retdict' = NoBuildInfo
  /\ UNCHANGED <<entry, stack, exc, args, locals, starts, outcomes, lastProcOp, obs>>

\* finally: updater.app.terminate_all(True) (lines 258-259)
main_finally ==
  /\ pc = "main_finally"
  /\ lastProcOp' = "terminate_all"
  /\ pc' = "done"
  /\ retval' = "none"
  /\ retdict' = NoBuildInfo
  /\ \E out \in CallOutcomes :
       exc' = IF out = "ok" THEN exc ELSE "ProcessError"
  /\ UNCHANGED <<entry, stack, args, locals, starts, outcomes, obs>>

\* ----------------------------------------------------------------- harness

NoArgs == [channel_name |-> <<>>, password |-> "", access_tokens |-> ""]

InitCommon ==
  /\ stack = <<>>
  /\ exc = "none"
  /\ retval = "none"
  /\ retdict = NoBuildInfo
  /\ number = 0
  /\ new_version = "none"
  /\ title = "none"
  /\ build_info = NoBuildInfo
  /\ channel_name = <<>>
  /\ end_time = 0
  /\ now = 0
  /\ starts = 0
  /\ outcomes = <<>>
  /\ lastProcOp = "none"

\* main(), with the channel, password and token of the command line.
InitMain ==
  /\ entry = "main"
  /\ pc = "main"
  /\ args \in [channel_name : ChannelNames, password : Passwords,
               access_tokens : Tokens]
  /\ retry = 0
  /\ expected_state = "none"
  /\ max_time = 0
  /\ obs = NewObs
  /\ InitCommon

\* launch_ghub(retry) called on its own, for every retry budget.
InitLaunch ==
  /\ entry = "launch_ghub"
  /\ pc = "launch_ghub"
  /\ args = NoArgs
  /\ retry \in 0..MaxRetry
  /\ expected_state = "none"
  /\ max_time = 0
  /\ obs = EnterLaunch(NewObs)
  /\ InitCommon

\* wait_for_update_state(expected_state, max_time) called on its own.
InitWaitState ==
  /\ entry = "wait_for_update_state"
  /\ pc = "wait_for_update_state"
  /\ args = NoArgs
  /\ retry = 0
  /\ expected_state \in UpdateStates
  /\ max_time \in 0..WaitTicks
  /\ obs = NewObs
  /\ InitCommon

\* wait_until_backend_connected(max_time) and
\* wait_until_backend_disconnected(max_time) called on their own.
InitWaitConnection ==
  /\ entry \in {"wait_until_backend_connected", "wait_until_backend_disconnected"}
  /\ pc = entry
  /\ args = NoArgs
  /\ retry = 0
  /\ expected_state = "none"
  /\ max_time \in 0..WaitTicks
  /\ obs = NewObs
  /\ InitCommon

Init == InitMain \/ InitLaunch \/ InitWaitState \/ InitWaitConnection

Next ==
  \/ main_start
  \/ main_except
  \/ main_finally
  \/ start_launch_ghub
  \/ start_reset_existing_update_process
  \/ start_print_build_info
  \/ start_set_channel
  \/ start_check_for_update
  \/ start_if_new_version
  \/ start_install_new_update
  \/ start_get_build_info
  \/ start_compare
  \/ start_terminate_all
  \/ launch_ghub_for
  \/ launch_ghub_terminate_all
  \/ launch_ghub_launch_all
  \/ get_build_info_channel
  \/ get_build_info_info
  \/ print_build_info_get
  \/ print_build_info_print
  \/ reset_existing_update_process_status
  \/ reset_existing_update_process_reset
  \/ reset_existing_update_process_purge
  \/ reset_existing_update_process_kill
  \/ reset_existing_update_process_launch_ghub
  \/ reset_existing_update_process_end
  \/ set_channel_set
  \/ set_channel_get
  \/ check_for_update_reset
  \/ check_for_update_check_now
  \/ check_for_update_status
  \/ check_for_update_kill
  \/ check_for_update_next_info
  \/ download_new_update_set
  \/ download_new_update_wait
  \/ download_new_update_ready
  \/ download_new_update_except
  \/ install_new_update_set
  \/ install_new_update_wait_disconnected
  \/ install_new_update_wait_connected
  \/ install_new_update_check
  \/ install_new_update_if
  \/ wait_for_update_state_enter
  \/ wait_for_update_state_while
  \/ wait_for_update_state_poll
  \/ wait_until_backend_disconnected_enter
  \/ wait_until_backend_disconnected_while
  \/ wait_until_backend_connected_enter
  \/ wait_until_backend_connected_while

Spec == Init /\ [][Next]_vars

\* The labels inside the three wait loops.
WaitLoopLabels ==
  {"wait_state_while", "wait_state_poll", "wait_disconnected_while",
   "wait_connected_while"}

\* A pass through the head of a wait loop on which time.time() read later than
\* on the pass before, or on which the loop was left.
TimePasses ==
  /\ \/ wait_for_update_state_while
     \/ wait_until_backend_disconnected_while
     \/ wait_until_backend_connected_while
  /\ now' > now \/ pc' \notin WaitLoopLabels

\* The program keeps running while it has a step to take, and the clock the
\* wait loops read does not stand still for ever.
LiveSpec == Init /\ [][Next]_vars /\ WF_vars(Next) /\ SF_vars(TimePasses)

\* ------------------------------------------------------------------ claims

\* The start() invocation whose history obs holds has ended.
StartEnded == entry = "main" /\ pc \in {"main_except", "main_finally", "done"}

\* How the start() invocation that ended last ended.
LastOutcome == outcomes[Len(outcomes)]

\* C1 (as claimed): every start() invocation that has ended, normally or by a
\* failure of any step, executed the terminate-all of line 238.
C1_StartAlwaysTerminates == StartEnded => obs.cleanup

\* C2: main() runs start() a second time exactly when the first raised, never a
\* third time; when main() ends, the last process-controller operation was
\* terminate_all, and a failure of the second start() has left main() raising.
C2_RetryOnceThenCleanup ==
  /\ starts <= 2
  /\ starts = 2 => outcomes # <<>> /\ outcomes[1] = "raised"
  /\ (entry = "main" /\ pc = "done") =>
       /\ Len(outcomes) = starts
       /\ starts = 2 <=> outcomes[1] = "raised"
       /\ lastProcOp = "terminate_all"
       /\ (starts = 2 /\ outcomes[2] = "raised") => exc # "none"

\* C2 witness: both start() invocations raised and main() ended raising.
C2_Witness ==
  /\ entry = "main" /\ pc = "done"
  /\ outcomes = <<"raised", "raised">>
  /\ exc = "DownloadTimeout"
  /\ lastProcOp = "terminate_all"

\* C3: launch_ghub(N) begins at most N terminate+launch attempts, returns at the
\* first attempt that does not raise, and raises LaunchFailure exactly when all
\* N attempts raised.
C3_LaunchRetryBudget ==
  /\ obs.launchResult # "none" =>
       /\ obs.launchTries <= retry
       /\ obs.launchFails <= obs.launchTries
  /\ obs.launchResult = "returned" => obs.launchFails = obs.launchTries - 1
  /\ obs.launchResult = "LaunchFailure" =>
       obs.launchTries = retry /\ obs.launchFails = retry
  /\ (obs.launchResult = "running" /\ pc = "launch_ghub") =>
       obs.launchFails = obs.launchTries
  /\ (entry = "launch_ghub" /\ pc = "done") =>
       /\ obs.launchResult \in {"returned", "LaunchFailure"}
       /\ exc = "LaunchFailure" <=> obs.launchFails = retry
       /\ exc = "none" <=> obs.launchResult = "returned"

\* C3 witness: with the largest budget, all attempts but the last raised and the
\* last one launched the product.
C3_Witness ==
  /\ entry = "launch_ghub" /\ pc = "done"
  /\ retry = MaxRetry
  /\ obs.launchFails = retry - 1
  /\ obs.launchResult = "returned"

\* C4: check_for_update, by the state of the status response it read: NO_UPDATES
\* returns False without a GET /updates/next/info; UPDATER_ERROR raises
\* UpdaterError; any state but these two and CHECKING_FOR_UPDATES sends exactly
\* one GET /updates/next/info and returns that response's version (or the
\* failure of that exchange leaves the method).
C4_CheckClassifies ==
  /\ obs.chkState = "NO_UPDATES" =>
       obs.chkResult = "returned" /\ obs.chkReturned = PyFalse /\ obs.nextGets = 0
  /\ obs.chkState = "UPDATER_ERROR" =>
       obs.chkResult = "UpdaterError" /\ obs.nextGets = 0
  /\ (obs.chkState \notin {"none", "NO_UPDATES", "UPDATER_ERROR", "CHECKING_FOR_UPDATES"}
      /\ obs.chkResult # "running") =>
       /\ obs.nextGets = 1
       /\ obs.chkResult \in {"returned", "TransportError"}
       /\ obs.chkResult = "returned" =>
            obs.nextVersion \in Versions /\ obs.chkReturned = obs.nextVersion
  /\ (pc \in {"start_if", "install_if"}) =>
       obs.chkResult = "returned" /\ retval = obs.chkReturned

\* C4 witness: an unknown state was classified and the version of
\* /updates/next/info came back to step 5.
C4_Witness ==
  /\ pc = "start_if"
  /\ obs.chkState = "OTHER_STATE"
  /\ obs.nextGets = 1
  /\ retval = "2.0"

\* C5 (as claimed): whenever a check_for_update read CHECKING_FOR_UPDATES, the
\* start() invocation has sent no SET /updates/download and no SET
\* /updates/install at all.
C5_StuckCheckNeverDownloads ==
  obs.chkState = "CHECKING_FOR_UPDATES" => obs.dlSets = 0 /\ obs.instSets = 0

\* C5 (amended): a check_for_update that read CHECKING_FOR_UPDATES kills the
\* updater helper before it raises UpdateCheckTimeout and ends the start()
\* invocation, so that no SET /updates/download or /updates/install follows;
\* when the check is the one of step 5, none was sent in the invocation at all.
C5_StuckCheckKillsAndAborts ==
  /\ obs.chkResult = "UpdateCheckTimeout" =>
       obs.chkState = "CHECKING_FOR_UPDATES" /\ obs.killed
  /\ obs.killed => obs.chkState = "CHECKING_FOR_UPDATES"
  /\ (obs.chkState = "CHECKING_FOR_UPDATES" /\ pc # "check_kill") =>
       /\ obs.killed
       /\ obs.chkResult \in {"UpdateCheckTimeout", "ProcessError"}
       /\ StartEnded
       /\ LastOutcome = "raised"
       /\ obs.failedStep \in {5, 7}
       /\ obs.dlSets = obs.postChecks /\ obs.instSets = obs.postChecks
       /\ obs.failedStep = 5 => obs.dlSets = 0 /\ obs.instSets = 0

\* C5 witness: step 5 read CHECKING_FOR_UPDATES, killed the helper and the
\* invocation ended with UpdateCheckTimeout.
C5_Witness ==
  /\ pc = "main_except"
  /\ exc = "UpdateCheckTimeout"
  /\ obs.failedStep = 5
  /\ obs.killed

\* C6: when step 5 classified NO_UPDATES, start() sends no SET /updates/download
\* and no SET /updates/install, enters no connection wait, goes straight to the
\* terminate-all of line 238 and returns; only that terminate-all can make it raise.
C6_NoUpdateDoesNothing ==
  obs.step5NoUpdates =>
    /\ obs.step5 = PyFalse
    /\ obs.noUpdate
    /\ obs.dlSets = 0 /\ obs.instSets = 0 /\ obs.connWaits = 0
    /\ obs.postChecks = 0 /\ ~obs.reportCalled
    /\ pc = "start_terminate_all" \/ StartEnded
    /\ StartEnded =>
         /\ obs.cleanup
         /\ LastOutcome = "raised" => obs.failedStep = 9

\* C6 witness: step 5 read NO_UPDATES and start() returned after its cleanup.
C6_Witness ==
  /\ obs.step5NoUpdates
  /\ pc = "main_finally"
  /\ LastOutcome = "returned"
  /\ obs.cleanup

\* C7: start() goes on to report NEW BUILD INFO (line 235) exactly when the
\* version of /updates/info read after the install equals the version step 5
\* got from /updates/next/info; the report is made only after download and
\* install both completed, and it is printed unless its own build-info query fails.
C7_ReportIffVersionMatches ==
  /\ obs.reportCalled <=> (obs.postVersion # "none" /\ obs.postVersion = obs.step5)
  /\ obs.reportedNew => obs.reportCalled
  /\ obs.postVersion # "none" =>
       /\ Truthy(obs.step5)
       /\ obs.dlDone /\ obs.ready /\ obs.instDone
       /\ obs.dropped /\ obs.reconnected /\ obs.postResult = "no_update"
  /\ (obs.reportCalled /\ ~obs.reportedNew /\ StartEnded) =>
       LastOutcome = "raised" /\ obs.failedStep = 8
  /\ (obs.reportCalled /\ pc = "start_terminate_all") => obs.reportedNew

\* C7 witness: the installed version matched and NEW BUILD INFO was printed.
C7_Witness ==
  /\ pc = "main_finally"
  /\ obs.reportedNew
  /\ obs.step5 = "2.0"
  /\ obs.postVersion = "2.0"

\* C8: in one start() invocation, SET /updates/check_now is sent only after
\* set_channel returned; SET /updates/download only after check_for_update
\* returned a version; SET /updates/install only after a poll read UPDATE_READY
\* following the download SET; the post-install check only after the connection
\* wait for the drop and then the wait for the reconnect returned.
C8_RequestOrder ==
  entry = "main" =>
  /\ obs.checkNow > 0 => obs.chanOk
  /\ obs.dlSets > 0 => Truthy(obs.step5) /\ obs.checkNow > 0
  /\ obs.ready => obs.dlSets > 0
  /\ obs.instSets > 0 => obs.ready /\ obs.dlDone
  /\ obs.dropped => obs.instSets > 0
  /\ obs.reconnected => obs.dropped
  /\ obs.postChecks > 0 => obs.dropped /\ obs.reconnected
  /\ obs.dlSets <= 1 /\ obs.instSets <= 1 /\ obs.postChecks <= 1

\* C8 witness: the post-install check has sent its SET /updates/check_now.
C8_Witness ==
  /\ obs.postChecks = 1
  /\ obs.checkNow = 2
  /\ obs.instSets = 1

\* t is s without its leading and trailing spaces.
IsTrimOf(t, s) ==
  /\ t # <<>> => t[1] # " " /\ t[Len(t)] # " "
  /\ \E i \in 0..Len(s) :
       /\ i + Len(t) <= Len(s)
       /\ \A k \in 1..Len(s) :
            IF k > i /\ k <= i + Len(t) THEN s[k] = t[k - i] ELSE s[k] = " "

\* C9: set_channel sends its GET /updates/channel after its SET, and, having
\* read a name back, returns exactly when that name equals the requested name
\* without its surrounding whitespace, and raises ChannelMismatch otherwise.
C9_ChannelReadBack ==
  /\ obs.chanGet => obs.chanSet
  /\ obs.chanOk => obs.chanRead
  /\ obs.chanRead =>
       /\ IsTrimOf(obs.requested, args.channel_name)
       /\ obs.chanOk <=> obs.reflected = obs.requested
       /\ ~obs.chanOk =>
            /\ StartEnded /\ LastOutcome = "raised" /\ obs.failedStep = 4
            /\ pc # "done" => exc = "ChannelMismatch"

\* C9 witness: a name given with surrounding spaces was accepted on reading
\* back the trimmed name.
C9_Witness ==
  /\ obs.chanOk
  /\ args.channel_name = <<" ", "B", " ">>
  /\ obs.reflected = <<"B">>

\* C10 (as claimed): the SET /updates/channel payload carries the trimmed name,
\* the password and the access token the caller gave.
C10_PayloadCarriesToken ==
  obs.chanSet =>
    /\ IsTrimOf(obs.chanPayload.name, args.channel_name)
    /\ obs.chanPayload.password = args.password
    /\ "accessToken" \in DOMAIN obs.chanPayload
    /\ obs.chanPayload.accessToken = args.access_tokens

\* The poll loop of wait_for_update_state is running.
InStateWait == pc \in {"wait_state_while", "wait_state_poll"}

\* wait_for_update_state, called on its own, has ended.
StateWaitEnded == entry = "wait_for_update_state" /\ pc = "done"

StartRaised(step) ==
  /\ entry = "main"
  /\ pc \in StartHandlers
  /\ exc # "none"
  /\ obs.failedStep = step

\* C13 (as claimed): every failure that leaves download_new_update is
\* DownloadTimeout, and it returns only after UPDATE_READY was polled.
C13_EveryDownloadFailureIsTimeout ==
  /\ StartRaised(6) => exc = "DownloadTimeout"
  /\ obs.dlDone => obs.ready

\* C13 (amended): a failure of wait_for_update_state leaves download_new_update
\* as DownloadTimeout; a failure of the SET /updates/download itself leaves it
\* unchanged, before any poll; download_new_update returns only after a poll
\* read UPDATE_READY.
C13_WaitFailureIsTimeout ==
  /\ StartRaised(6) =>
       \/ /\ exc = "DownloadTimeout"
          /\ obs.waitResult = "StatePollTimeout"
          /\ obs.dlSets = 1
       \/ /\ exc = "TransportError"
          /\ obs.waitResult = "none"
          /\ obs.lastReq = "SET /updates/download"
  /\ obs.dlDone => obs.ready /\ obs.polled = "UPDATE_READY"

\* C13 witness: the wait ran out after polling a state other than
\* UPDATE_READY and start() was left with DownloadTimeout.
C13_Witness ==
  /\ StartRaised(6)
  /\ exc = "DownloadTimeout"
  /\ obs.polled = "UPDATE_DOWNLOADING"
  /\ obs.timedOutAt = WaitTicks

\* C14: in a start() invocation, install_new_update goes on to the wait for the
\* drop whether or not its SET /updates/install raised; the wait for the
\* reconnect is entered only after the wait for the drop returned; and when
\* either wait runs out, at or after its deadline, start() is left with
\* ConnectionTimeout without the post-install check_for_update having started.
C14_InstallWaitsInOrder ==
  entry = "main" =>
  /\ obs.instSets = 1 =>
       \/ pc \in {"install_wait_disconnected", "wait_until_backend_disconnected"}
       \/ obs.connWaits >= 1
  /\ obs.connWaits <= 2
  /\ obs.connWaits = 2 => obs.dropped
  /\ obs.reconnected => obs.dropped /\ obs.connWaits = 2
  /\ obs.postChecks > 0 => obs.reconnected
  /\ obs.waitResult = "ConnectionTimeout" =>
       /\ obs.failedStep = 7
       /\ obs.timedOutAt >= max_time
       /\ ~obs.reconnected
       /\ obs.postChecks = 0
       /\ pc \in StartHandlers => exc = "ConnectionTimeout"

\* C14 witness: the SET /updates/install raised, the connection dropped and
\* did not come back before the deadline.
C14_Witness ==
  /\ StartRaised(7)
  /\ exc = "ConnectionTimeout"
  /\ obs.instSetRaised
  /\ obs.dropped
  /\ obs.connWaits = 2

\* The exceptions check_for_update can be left with.
CheckFailures == {"UpdaterError", "UpdateCheckTimeout", "TransportError"}

\* C15: once the post-install check_for_update has returned, install_new_update
\* raises InstallIncomplete exactly when the value returned is truthy (a
\* non-empty version string) and returns exactly when it is not (False, or an
\* empty version); an exception raised by that check leaves install_new_update
\* and start() as it is.
C15_InstallIncompleteIffUpdate ==
  entry = "main" =>
  /\ obs.postReturned # "none" =>
       /\ obs.postChecks = 1 /\ obs.reconnected
       /\ obs.postResult = (IF Truthy(obs.postReturned) THEN "update" ELSE "no_update")
  /\ obs.postResult = "update" =>
       /\ obs.postReturned \in Versions
       /\ ~obs.instDone
       /\ obs.failedStep = 7
       /\ pc \in StartHandlers => exc = "InstallIncomplete"
  /\ obs.instDone <=> obs.postResult = "no_update"
  /\ obs.instDone => obs.postReturned \in {PyFalse, ""}
  /\ StartRaised(7) /\ exc = "InstallIncomplete" => obs.postResult = "update"
  /\ obs.postChecks = 1 /\ obs.chkResult \in CheckFailures =>
       /\ obs.postResult = "none"
       /\ obs.failedStep = 7
       /\ pc \in StartHandlers => exc = obs.chkResult

\* C15 witness: the post-install check returned a version and start() was left
\* with InstallIncomplete.
C15_Witness ==
  /\ StartRaised(7)
  /\ exc = "InstallIncomplete"
  /\ obs.postReturned = "2.0"

\* The loops of the two connection waits.
ConnectionLoops == {"wait_disconnected_while", "wait_connected_while"}

\* One of the connection waits, called on its own, has ended.
ConnectionWaitEnded ==
  /\ entry \in {"wait_until_backend_connected", "wait_until_backend_disconnected"}
  /\ pc = "done"

\* A step taken inside a connection wait hands nothing to send_message.
ConnectionWaitSendsNothing ==
  pc \in ConnectionLoops => obs'.lastReq = obs.lastReq

\* C16 (as claimed): wait_until_backend_connected returns only on a flag value
\* that is neither None nor True, wait_until_backend_disconnected only on True.
C16_ConnectedMeansRunning ==
  /\ obs.reconnected => obs.connFlag \notin {"None", "True"}
  /\ obs.dropped => obs.dropFlag = "True"

\* C16 (amended): wait_until_backend_connected returns only on reading None,
\* wait_until_backend_disconnected only on reading True; while either loop
\* runs its value has not been read and its deadline is start + max_time; each
\* ends by returning True or by raising ConnectionTimeout on a clock reading
\* at or after the deadline; no step of either loop sends a request; and with
\* a clock that does not stand still each loop is left.
C16_ConnectedMeansNone ==
  /\ [](obs.reconnected => obs.connFlag = "None")
  /\ [](obs.dropped => obs.dropFlag = "True")
  /\ [](pc = "wait_connected_while" => ~IsConnected(obs.flag))
  /\ [](pc = "wait_disconnected_while" => ~IsDisconnected(obs.flag))
  /\ [](pc \in ConnectionLoops => end_time = max_time)
  /\ [](obs.waitResult = "ConnectionTimeout" => obs.timedOutAt >= max_time)
  /\ [](ConnectionWaitEnded =>
          \/ exc = "none" /\ retval = "True" /\ obs.waitResult = "returned"
          \/ exc = "ConnectionTimeout" /\ obs.waitResult = "ConnectionTimeout")
  /\ [][ConnectionWaitSendsNothing]_vars
  /\ (pc \in ConnectionLoops) ~> (pc \notin ConnectionLoops)

\* C16 witness: wait_until_backend_connected, called on its own, has returned
\* on reading None.
C16_Witness ==
  /\ entry = "wait_until_backend_connected"
  /\ pc = "done"
  /\ exc = "none"
  /\ obs.reconnected
  /\ obs.connFlag = "None"

\* The states the claim names as an update in flight.
InFlightStates ==
  {"CHECKING_FOR_UPDATES", "UPDATE_DOWNLOADING", "UPDATE_UNPACKING", "UPDATE_READY"}

\* C17: reset_existing_update_process sends SET /updates/reset, then SET
\* /updates/purge, then kills lghub_updater, then relaunches the product, each
\* only after the one before succeeded and only when the state it read is one
\* of the four in-flight states; having read one of them it returns only after
\* all four; having read any other state it returns at once, with the status
\* GET its last request and no kill and no relaunch.
C17_ResetOnlyWhenInFlight ==
  entry = "main" =>
  /\ obs.resetSets \in {<<>>, <<"/updates/reset">>,
                        <<"/updates/reset", "/updates/purge">>}
  /\ obs.resetSets # <<>> => obs.resetState \in InFlightStates
  /\ obs.resetKill => obs.resetSets = <<"/updates/reset", "/updates/purge">>
  /\ obs.resetLaunch => obs.resetKill
  /\ pc = "reset_set_reset" <=> obs.step = 2 /\ obs.resetState \in InFlightStates
                                  /\ obs.resetSets = <<>> /\ obs.failedStep = 0
  /\ pc = "start_print" =>
       IF obs.resetState \in InFlightStates
       THEN /\ obs.resetSets = <<"/updates/reset", "/updates/purge">>
            /\ obs.resetKill
            /\ obs.resetLaunch
            /\ lastProcOp = "launch_all"
       ELSE /\ obs.resetState \in UpdateStates
            /\ obs.resetSets = <<>>
            /\ ~obs.resetKill
            /\ ~obs.resetLaunch
            /\ obs.lastReq = "GET /updates/status"

\* C17 witness: having read UPDATE_READY, the reset has sent both SETs, killed
\* the helper, relaunched the product and returned.
C17_Witness ==
  /\ pc = "start_print"
  /\ obs.resetState = "UPDATE_READY"
  /\ obs.resetSets = <<"/updates/reset", "/updates/purge">>
  /\ obs.resetKill
  /\ obs.resetLaunch

\* The exceptions a collaborator call raises.
CollaboratorErrors == {"TransportError", "ProcessError"}

\* A failure has left the start() invocation obs describes, from the step it
\* was in, and nothing of that invocation ran after it.
FailureIsFatal ==
  obs.failedStep # 0 =>
    /\ pc \in {"main_except", "main_finally", "done"}
    /\ obs.step = obs.failedStep

\* C18 (as claimed): inside start() only wait_for_update_state catches a
\* failure and goes on; every other failure ends the invocation at its step.
C18_OnlyPollFailuresCaught ==
  entry = "main" =>
  /\ obs.caught \subseteq {"wait_for_update_state"}
  /\ FailureIsFatal

\* C18 (amended): inside start() a failure is caught and execution goes on in
\* three places only: a failed attempt of launch_ghub, the SET /updates/install
\* of install_new_update, and a poll of wait_for_update_state. The only other
\* handler below main() is download_new_update's, which a collaborator's
\* exception never reaches. Every exception that leaves a step ends the
\* invocation at that step, and a collaborator's exception reaches main()
\* unchanged.
C18_CaughtInThreePlaces ==
  entry = "main" =>
  /\ obs.caught \subseteq {"launch_ghub", "install_new_update", "wait_for_update_state"}
  /\ FailureIsFatal
  /\ \A i \in 1..Len(stack) :
       stack[i].handler \in {"none", "main_except", "main_finally", "download_except"}
  /\ pc = "download_except" => exc \notin CollaboratorErrors
  /\ pc \in StartHandlers /\ exc \in CollaboratorErrors =>
       /\ obs.failedStep = obs.step
       /\ LastOutcome = "raised"

\* C18 witness: the SET /updates/install raised and install_new_update went
\* on; the transport failure of its post-install check then ended start().
C18_Witness ==
  /\ StartRaised(7)
  /\ exc = "TransportError"
  /\ "install_new_update" \in obs.caught
  /\ obs.postChecks = 1

\* install_new_update completed and line 233 read a version other than the one
\* check_for_update returned in step 5.
VersionMismatch ==
  /\ entry = "main"
  /\ obs.instDone
  /\ obs.postVersion # "none"
  /\ obs.postVersion # obs.step5

\* C19 (as claimed): a start() invocation that found the versions to differ
\* ends by raising, having sent one SET /updates/download and one SET
\* /updates/install.
C19_MismatchRaises ==
  VersionMismatch =>
    /\ obs.dlSets = 1 /\ obs.instSets = 1
    /\ StartEnded => LastOutcome = "raised"

\* C19 (amended): a start() invocation that found the versions to differ
\* prints no NEW BUILD INFO, sends no request after the GET /updates/info of
\* the comparison, has sent one SET /updates/download and one SET
\* /updates/install, runs the terminate_all of line 238 and returns normally;
\* it raises only when that terminate_all raises.
C19_MismatchReturnsSilently ==
  VersionMismatch =>
    /\ ~obs.reportCalled /\ ~obs.reportedNew
    /\ obs.lastReq = "GET /updates/info"
    /\ obs.dlSets = 1 /\ obs.instSets = 1
    /\ obs.failedStep \in {0, 9}
    /\ StartEnded =>
         /\ obs.cleanup
         /\ IF obs.failedStep = 0
            THEN LastOutcome = "returned"
            ELSE /\ LastOutcome = "raised"
                 /\ pc \in StartHandlers => exc = "ProcessError"

\* C19 witness: step 5 returned 2.0, the install completed, line 233 read 1.0
\* and start() returned normally.
C19_Witness ==
  /\ VersionMismatch
  /\ StartEnded
  /\ LastOutcome = "returned"
  /\ obs.step5 = "2.0"
  /\ obs.postVersion = "1.0"

\* C20: once download_new_update has begun to poll, and until start() moves on
\* to the install, either the loop is running, whatever states it has read so
\* far, none of them UPDATE_READY; or it returned on reading UPDATE_READY; or
\* it gave up on a clock reading at or after its deadline, the last state read
\* not being UPDATE_READY, and download_new_update raises DownloadTimeout.
C20_DownloadPollsThroughErrors ==
  entry = "main" /\ obs.step = 6 /\ obs.waitResult # "none" =>
    \/ /\ obs.waitResult = "running"
       /\ InStateWait
       /\ expected_state = "UPDATE_READY"
       /\ obs.polled # "UPDATE_READY"
       /\ ~obs.ready /\ ~obs.dlDone
       /\ obs.failedStep = 0
    \/ /\ obs.waitResult = "returned"
       /\ pc \in {"download_ready", "start_install"}
       /\ obs.polled = "UPDATE_READY"
       /\ obs.ready
       /\ obs.failedStep = 0
    \/ /\ obs.waitResult = "StatePollTimeout"
       /\ obs.polled # "UPDATE_READY"
       /\ obs.timedOutAt >= max_time
       /\ ~obs.dlDone
       /\ \/ pc = "download_except" /\ exc = "StatePollTimeout"
          \/ StartRaised(6) /\ exc = "DownloadTimeout"
          \/ pc = "done" /\ obs.failedStep = 6

\* C20 witness: the download poll read UPDATER_ERROR and the loop is about to
\* poll again.
C20_Witness ==
  /\ entry = "main"
  /\ obs.step = 6
  /\ pc = "wait_state_poll"
  /\ obs.polled = "UPDATER_ERROR"

====
